---- MODULE Spec2Model ----
(***************************************************************************)
(* Model of sniffle/packet_decoder.py: the BLE link-layer PDU dispatcher,  *)
(* the field decoders whose failures matter, and update_state, the         *)
(* correlation state machine over a SniffleDecoderState.                   *)
(*                                                                         *)
(* Conventions of the encoding                                             *)
(*  - Python None is the empty tuple, a present value v is <<v>>.          *)
(*  - Timestamps are integer microseconds (the code uses float seconds:    *)
(*    0.0005 s is 500, 0.001 s is 1000, offsetUsec*1E-6 s is offsetUsec).  *)
(*  - A 32-bit access address is a pair of 16-bit halves [hi, lo], since   *)
(*    0x8E89BED6 does not fit the model checker's integers.                *)
(*  - Byte strings are sequences over 0..255; Python index i is i + 1.     *)
(*  - A raised exception is a record field "raised"; attributes that only  *)
(*    the text rendering reads (ChSel, NESN, WinSize, ...) are not kept.   *)
(***************************************************************************)
EXTENDS Integers, Sequences, FiniteSets, TLC

VARIABLES
    dstate,      \* the session's SniffleDecoderState
    pkt,         \* the record given to the last decode call (None before any)
    has_dstate,  \* whether that call was given the decoder state
    pre,         \* the decoder state as it was when that call began
    tc,          \* the class the dispatcher selected in that call (None if it raised first)
    ret,         \* what that call returned
    outcome      \* "returned", or "raised" if the call let an exception escape

vars == <<dstate, pkt, has_dstate, pre, tc, ret, outcome>>

None == <<>>
Some(v) == <<v>>

Min(a, b) == IF a < b THEN a ELSE b

\* Python truthiness of an optional number: None and 0 are false.
Truthy(x) == x # None /\ x[1] # 0

\* body[i], and whether it raises IndexError
HasIndex(s, i) == i < Len(s)
At(s, i) == s[i + 1]

\* body[a:b]; never raises, a slice past the end is shorter or empty
Slice(s, a, b) == SubSeq(s, a + 1, Min(b, Len(s)))

\* (x >> k) & 1
Bit(x, k) == (x \div (2 ^ k)) % 2

U32(hi, lo) == [hi |-> hi, lo |-> lo]

\* struct.unpack('<L', b)[0] for a 4-byte b
UnpackLE32(b) == U32(b[3] + 256 * b[4], b[1] + 256 * b[2])

----------------------------------------------------------------------------
(* Collaborators that live outside packet_decoder.py *)

\* constants.BLE_ADV_AA = 0x8E89BED6
BLE_ADV_AA == U32(36489, 48854)

\* crc_ble.rbit24: reverse the order of the low 24 bits
RECURSIVE RevBits(_, _)
RevBits(x, n) == IF n = 0 THEN 0 ELSE (x % 2) * (2 ^ (n - 1)) + RevBits(x \div 2, n - 1)

rbit24(x) == RevBits(x, 24)

\* sniffer_state.SnifferState, the members the decoder distinguishes
LastStates == {"STATIC", "SCANNING", "ADVERTISING_EXT"}

\* decoder_state.SniffleDecoderState() as a session starts in capture mode m
NewDecoderState(m) ==
    [last_state |-> m,
     cur_aa |-> None,
     crc_init_rev |-> None,
     aux_pending_aa |-> None,
     aux_pending_crci |-> None,
     aux_pending_scan_rsp |-> None,
     aux_pending_chain |-> None]

----------------------------------------------------------------------------
(* The class hierarchy *)

Parent ==
    [c \in {"DPacketMessage", "AdvertMessage", "DataMessage", "LlDataMessage",
            "LlDataContMessage", "LlControlMessage", "AdvaMessage", "AdvIndMessage",
            "AdvNonconnIndMessage", "ScanRspMessage", "AdvScanIndMessage",
            "AdvDirectIndMessage", "ScanReqMessage", "AuxScanReqMessage",
            "ConnectIndMessage", "AuxConnectReqMessage", "AdvExtIndMessage",
            "AuxAdvIndMessage", "AuxScanRspMessage", "AuxChainIndMessage",
            "AuxConnectRspMessage"} |->
        CASE c = "DPacketMessage" -> "PacketMessage"
          [] c \in {"AdvertMessage", "DataMessage"} -> "DPacketMessage"
          [] c \in {"LlDataMessage", "LlDataContMessage", "LlControlMessage"} -> "DataMessage"
          [] c \in {"AdvaMessage", "AdvDirectIndMessage", "ScanReqMessage",
                    "ConnectIndMessage", "AdvExtIndMessage"} -> "AdvertMessage"
          [] c \in {"AdvIndMessage", "AdvNonconnIndMessage", "ScanRspMessage",
                    "AdvScanIndMessage"} -> "AdvaMessage"
          [] c = "AuxScanReqMessage" -> "ScanReqMessage"
          [] c = "AuxConnectReqMessage" -> "ConnectIndMessage"
          [] c \in {"AuxAdvIndMessage", "AuxConnectRspMessage"} -> "AdvExtIndMessage"
          [] c \in {"AuxScanRspMessage", "AuxChainIndMessage"} -> "AuxAdvIndMessage"]

RECURSIVE IsInstance(_, _)
IsInstance(c, base) ==
    IF c = base THEN TRUE
    ELSE IF c \in DOMAIN Parent THEN IsInstance(Parent[c], base)
    ELSE FALSE

----------------------------------------------------------------------------
(* PDU field decoders: the constructors.  Each yields Raise, or Ok(object). *)

Raise == [raised |-> TRUE]
Ok(o) == [raised |-> FALSE, obj |-> o]

\* DPacketMessage.__init__: the copy constructor.  The attributes below the
\* header are those a subclass constructor may set; None until it does.
DPacketMessage_init(cls, p) ==
    [cls |-> cls, ts |-> p.ts, aa |-> p.aa, chan |-> p.chan, phy |-> p.phy,
     body |-> p.body,
     opcode |-> None, AdvA |-> None, TargetA |-> None, ScanA |-> None,
     InitA |-> None, aa_conn |-> None, CRCInit |-> None,
     AdvMode |-> None, CTEInfo |-> None, AdvDataInfo |-> None, AuxPtr |-> None,
     SyncInfo |-> None, TxPower |-> None, ACAD |-> None]

\* AdvertMessage.__init__ reads body[0] and body[1]
AdvertMessage_init(cls, p) ==
    IF ~HasIndex(p.body, 1) THEN Raise ELSE Ok(DPacketMessage_init(cls, p))

\* DataMessage.__init__ reads body[0] and body[1]
DataMessage_init(cls, p) ==
    IF ~HasIndex(p.body, 1) THEN Raise ELSE Ok(DPacketMessage_init(cls, p))

LlControlMessage_init(cls, p) ==
    LET b == DataMessage_init(cls, p) IN
    IF b.raised THEN Raise
    ELSE IF ~HasIndex(p.body, 2) THEN Raise
    ELSE Ok([b.obj EXCEPT !.opcode = Some(At(p.body, 2))])

AdvaMessage_init(cls, p) ==
    LET b == AdvertMessage_init(cls, p) IN
    IF b.raised THEN Raise
    ELSE Ok([b.obj EXCEPT !.AdvA = Some(Slice(p.body, 2, 8))])

AdvDirectIndMessage_init(cls, p) ==
    LET b == AdvertMessage_init(cls, p) IN
    IF b.raised THEN Raise
    ELSE Ok([b.obj EXCEPT !.AdvA = Some(Slice(p.body, 2, 8)),
                          !.TargetA = Some(Slice(p.body, 8, 14))])

ScanReqMessage_init(cls, p) ==
    LET b == AdvertMessage_init(cls, p) IN
    IF b.raised THEN Raise
    ELSE Ok([b.obj EXCEPT !.ScanA = Some(Slice(p.body, 2, 8)),
                          !.AdvA = Some(Slice(p.body, 8, 14))])

\* ConnectIndMessage.__init__: struct.unpack('<L', body[14:18]) needs 4 bytes,
\* body[18..21] must exist, struct.unpack("<HHHH", body[22:30]) needs 8 bytes,
\* and body[35] must exist.
ConnectIndMessage_init(cls, p) ==
    LET b == AdvertMessage_init(cls, p)
        body == p.body
    IN  IF b.raised THEN Raise
        ELSE IF Len(Slice(body, 14, 18)) # 4 THEN Raise
        ELSE IF ~HasIndex(body, 18) \/ ~HasIndex(body, 19) \/ ~HasIndex(body, 20) THEN Raise
        ELSE IF ~HasIndex(body, 21) THEN Raise
        ELSE IF Len(Slice(body, 22, 30)) # 8 THEN Raise
        ELSE IF ~HasIndex(body, 35) THEN Raise
        ELSE Ok([b.obj EXCEPT
                    !.InitA = Some(Slice(body, 2, 8)),
                    !.AdvA = Some(Slice(body, 8, 14)),
                    !.aa_conn = Some(UnpackLE32(Slice(body, 14, 18))),
                    !.CRCInit = Some(At(body, 18) + At(body, 19) * 256
                                     + At(body, 20) * 65536)])

\* AuxPtr.__init__ with the two offset units taken for each other
AuxPtr_units_swapped(ptr) ==
    IF ~HasIndex(ptr, 0) \/ ~HasIndex(ptr, 2) \/ ~HasIndex(ptr, 1) THEN Raise
    ELSE LET offsetMult == IF Bit(At(ptr, 0), 7) = 1 THEN 30 ELSE 300
             auxOffset == At(ptr, 1) + (At(ptr, 2) % 32) * 256
         IN  Ok([chan |-> At(ptr, 0) % 64,
                 phy |-> At(ptr, 2) \div 32,
                 offsetUsec |-> auxOffset * offsetMult])

\* AuxPtr.__init__: ptr[0] and ptr[2] are read first, so a slice shorter than
\* 3 bytes raises IndexError
AuxPtr(ptr) ==
    IF ~HasIndex(ptr, 0) \/ ~HasIndex(ptr, 2) \/ ~HasIndex(ptr, 1) THEN Raise
    ELSE LET offsetMult == IF Bit(At(ptr, 0), 7) = 1 THEN 300 ELSE 30
             auxOffset == At(ptr, 1) + (At(ptr, 2) % 32) * 256
         IN  Ok([chan |-> At(ptr, 0) % 64,
                 phy |-> At(ptr, 2) \div 32,
                 offsetUsec |-> auxOffset * offsetMult])

\* AdvDataInfo.__init__.  The class defines no __eq__, so two of them are
\* equal only when they are one object: "fresh" tells the object made by the
\* decode call in progress from one an earlier call left in the state.
AdvDataInfo(adi) ==
    IF ~HasIndex(adi, 0) \/ ~HasIndex(adi, 1) THEN Raise
    ELSE Ok([did |-> At(adi, 0) + (At(adi, 1) % 16) * 256,
             sid |-> At(adi, 1) \div 16,
             fresh |-> TRUE])

\* struct.unpack("b", b)[0]: one signed byte
UnpackInt8(b) == IF b[1] >= 128 THEN b[1] - 256 ELSE b[1]

\* The walk of AdvExtIndMessage.__init__ over the optional fields, as a
\* record w: w.o the object so far, w.hdrPos the read position, w.stop set
\* once an exception has ended the walk (it is swallowed by the constructor).
WalkAdvA(w, hdrFlags) ==
    IF w.stop \/ Bit(hdrFlags, 0) = 0 THEN w
    ELSE [w EXCEPT !.o.AdvA = Some(Slice(w.o.body, w.hdrPos, w.hdrPos + 6)),
                   !.hdrPos = @ + 6]

WalkTargetA(w, hdrFlags) ==
    IF w.stop \/ Bit(hdrFlags, 1) = 0 THEN w
    ELSE [w EXCEPT !.o.TargetA = Some(Slice(w.o.body, w.hdrPos, w.hdrPos + 6)),
                   !.hdrPos = @ + 6]

WalkCTEInfo(w, hdrFlags) ==
    IF w.stop \/ Bit(hdrFlags, 2) = 0 THEN w
    ELSE IF ~HasIndex(w.o.body, w.hdrPos) THEN [w EXCEPT !.stop = TRUE]
    ELSE [w EXCEPT !.o.CTEInfo = Some(At(w.o.body, w.hdrPos)), !.hdrPos = @ + 1]

WalkAdvDataInfo(w, hdrFlags) ==
    IF w.stop \/ Bit(hdrFlags, 3) = 0 THEN w
    ELSE LET a == AdvDataInfo(Slice(w.o.body, w.hdrPos, w.hdrPos + 2)) IN
         IF a.raised THEN [w EXCEPT !.stop = TRUE]
         ELSE [w EXCEPT !.o.AdvDataInfo = Some(a.obj), !.hdrPos = @ + 2]

WalkAuxPtr(w, hdrFlags) ==
    IF w.stop \/ Bit(hdrFlags, 4) = 0 THEN w
    ELSE LET a == AuxPtr(Slice(w.o.body, w.hdrPos, w.hdrPos + 3)) IN
         IF a.raised THEN [w EXCEPT !.stop = TRUE]
         ELSE [w EXCEPT !.o.AuxPtr = Some(a.obj), !.hdrPos = @ + 3]

WalkSyncInfo(w, hdrFlags) ==
    IF w.stop \/ Bit(hdrFlags, 5) = 0 THEN w
    ELSE [w EXCEPT !.o.SyncInfo = Some(Slice(w.o.body, w.hdrPos, w.hdrPos + 18)),
                   !.hdrPos = @ + 18]

WalkTxPower(w, hdrFlags) ==
    IF w.stop \/ Bit(hdrFlags, 6) = 0 THEN w
    ELSE IF Len(Slice(w.o.body, w.hdrPos, w.hdrPos + 1)) # 1 THEN [w EXCEPT !.stop = TRUE]
    ELSE [w EXCEPT !.o.TxPower = Some(UnpackInt8(Slice(w.o.body, w.hdrPos, w.hdrPos + 1))),
                   !.hdrPos = @ + 1]

WalkACAD(w) ==
    IF w.stop \/ ~(w.hdrPos - 3 < w.hdrBodyLen) THEN w
    ELSE LET ACADLen == w.hdrBodyLen - (w.hdrPos - 3) IN
         [w EXCEPT !.o.ACAD = Some(Slice(w.o.body, w.hdrPos, w.hdrPos + ACADLen)),
                   !.hdrPos = @ + ACADLen]

\* The try block of AdvExtIndMessage.__init__ on an object o whose optional
\* attributes are None and whose AdvMode is not yet set
AdvExtIndMessage_walk(o) ==
    LET body == o.body
        w0 == [o |-> o, hdrPos |-> 0, hdrBodyLen |-> 0, stop |-> TRUE]
    IN  IF Len(body) < 3 THEN w0
        ELSE LET o1 == [o EXCEPT !.AdvMode = Some(At(body, 2) \div 64)]
                 hdrBodyLen == At(body, 2) % 64
                 w1 == [o |-> o1, hdrPos |-> 0, hdrBodyLen |-> hdrBodyLen, stop |-> TRUE]
             IN  IF Len(body) < hdrBodyLen + 1 THEN w1
                 ELSE IF ~HasIndex(body, 3) THEN w1
                 ELSE LET hdrFlags == At(body, 3)
                          w2 == [w1 EXCEPT !.hdrPos = 4, !.stop = FALSE]
                      IN  WalkACAD(
                          WalkTxPower(
                          WalkSyncInfo(
                          WalkAuxPtr(
                          WalkAdvDataInfo(
                          WalkCTEInfo(
                          WalkTargetA(
                          WalkAdvA(w2, hdrFlags), hdrFlags), hdrFlags), hdrFlags),
                              hdrFlags), hdrFlags), hdrFlags))

\* AdvExtIndMessage.__init__: only AdvertMessage.__init__ can raise out of it
AdvExtIndMessage_init(cls, p) ==
    LET b == AdvertMessage_init(cls, p) IN
    IF b.raised THEN Raise ELSE Ok(AdvExtIndMessage_walk(b.obj).o)

\* tc(pkt): the constructor class cls inherits
Construct(cls, p) ==
    CASE IsInstance(cls, "LlControlMessage") -> LlControlMessage_init(cls, p)
      [] IsInstance(cls, "DataMessage") /\ ~IsInstance(cls, "LlControlMessage")
            -> DataMessage_init(cls, p)
      [] IsInstance(cls, "AdvaMessage") -> AdvaMessage_init(cls, p)
      [] IsInstance(cls, "AdvDirectIndMessage") -> AdvDirectIndMessage_init(cls, p)
      [] IsInstance(cls, "ScanReqMessage") -> ScanReqMessage_init(cls, p)
      [] IsInstance(cls, "ConnectIndMessage") -> ConnectIndMessage_init(cls, p)
      [] IsInstance(cls, "AdvExtIndMessage") -> AdvExtIndMessage_init(cls, p)
      [] OTHER -> AdvertMessage_init(cls, p)

----------------------------------------------------------------------------
(* The dispatchers.  d is the dstate argument: None, or <<state>>.  Each    *)
(* yields [raised, tc, obj]: tc is None if the exception came before a      *)
(* class was selected.                                                      *)

\* the primary-channel table of AdvertMessage.decode
type_classes ==
    <<"AdvIndMessage", "AdvDirectIndMessage", "AdvNonconnIndMessage", "ScanReqMessage",
      "ScanRspMessage", "ConnectIndMessage", "AdvScanIndMessage", "AdvExtIndMessage">>

\* AuxType7Class with the deadlines taken inclusively
AuxType7Class_inclusive(p, ds) ==
    IF Truthy(ds.aux_pending_scan_rsp) /\ p.ts <= ds.aux_pending_scan_rsp[1]
        THEN "AuxScanRspMessage"
    ELSE IF ds.aux_pending_chain # None
            /\ p.chan = ds.aux_pending_chain[1][2]
            /\ p.ts <= ds.aux_pending_chain[1][3]
        THEN "AuxChainIndMessage"
    ELSE "AuxAdvIndMessage"

\* the tie-break for PDU type 7 on a secondary channel, for a state ds
AuxType7Class(p, ds) ==
    IF Truthy(ds.aux_pending_scan_rsp) /\ p.ts < ds.aux_pending_scan_rsp[1]
        THEN "AuxScanRspMessage"
    ELSE IF ds.aux_pending_chain # None
            /\ p.chan = ds.aux_pending_chain[1][2]
            /\ p.ts < ds.aux_pending_chain[1][3]
        THEN "AuxChainIndMessage"
    ELSE "AuxAdvIndMessage"

\* the class selection with the primary-channel table used on every channel
AdvertClass_table_everywhere(p, d) ==
    LET pdu_type == At(p.body, 0) % 16 IN
    IF pdu_type < Len(type_classes)
        THEN Ok(type_classes[pdu_type + 1])
        ELSE Ok("AdvertMessage")

\* the class selection of AdvertMessage.decode: Raise, or Ok(class)
AdvertClass(p, d) ==
    LET pdu_type == At(p.body, 0) % 16 IN
    IF p.chan >= 37
        THEN IF pdu_type < Len(type_classes)
                THEN Ok(type_classes[pdu_type + 1])
                ELSE Ok("AdvertMessage")
    ELSE IF pdu_type = 3 THEN Ok("AuxScanReqMessage")
    ELSE IF pdu_type = 5 THEN Ok("AuxConnectReqMessage")
    ELSE IF pdu_type = 7
        THEN IF d = None THEN Raise     \* None has no aux_pending_scan_rsp
             ELSE Ok(AuxType7Class(p, d[1]))
    ELSE IF pdu_type = 8 THEN Ok("AuxConnectRspMessage")
    ELSE Ok("AdvertMessage")

Dispatched(c, p) ==
    LET o == Construct(c.obj, p) IN
    IF o.raised THEN [raised |-> TRUE, tc |-> Some(c.obj)]
    ELSE [raised |-> FALSE, tc |-> Some(c.obj), obj |-> o.obj]

AdvertMessage_decode(p, d) ==
    IF ~HasIndex(p.body, 0) THEN [raised |-> TRUE, tc |-> None]
    ELSE LET c == AdvertClass(p, d) IN
         IF c.raised THEN [raised |-> TRUE, tc |-> None] ELSE Dispatched(c, p)

DataMessage_decode(p, d) ==
    IF ~HasIndex(p.body, 0) THEN [raised |-> TRUE, tc |-> None]
    ELSE LET LLID == At(p.body, 0) % 4
             data_classes == <<"DataMessage", "LlDataContMessage", "LlDataMessage",
                               "LlControlMessage">>
         IN  Dispatched(Ok(data_classes[LLID + 1]), p)

----------------------------------------------------------------------------
(* update_state(pkt, dstate): o is the decoded PDU, ds the state.  Yields   *)
(* [raised, dstate], dstate being the state as the assignments made before  *)
(* the return or the exception left it.                                     *)

\* a == b for two optional AdvDataInfo: identity, as the class has no __eq__.
\* At most one AdvDataInfo is made per decode call, so two are one object
\* exactly when both were made by the call in progress.
PyEq(a, b) ==
    IF a = None \/ b = None THEN a = b ELSE a[1].fresh /\ b[1].fresh

\* line 494 with the channel test turned round
connect_is_pending_swapped(o, ds) ==
    o.chan >= 37 /\ ds.last_state # "ADVERTISING_EXT"

\* line 494 with the channel test left out
connect_is_pending_any_chan(o, ds) ==
    ds.last_state # "ADVERTISING_EXT"

\* line 494: whether a CONNECT_IND only fills the pending slot
connect_is_pending(o, ds) ==
    o.chan < 37 /\ ds.last_state # "ADVERTISING_EXT"

\* lines 501-504 with the CRCInit stored as it is, not bit-reversed
promote_pending_unreversed(ds) ==
    LET s1 == [ds EXCEPT !.cur_aa = ds.aux_pending_aa]
        s2 == [s1 EXCEPT !.aux_pending_aa = None]
    IN  IF s2.aux_pending_crci = None
            THEN [raised |-> TRUE, dstate |-> s2]
            ELSE [raised |-> FALSE,
                  dstate |-> [s2 EXCEPT !.crc_init_rev = s2.aux_pending_crci,
                                        !.aux_pending_crci = None]]

\* lines 501-504: the four assignments of the AUX_CONNECT_RSP branch, in
\* order; rbit24(None) raises after the first two have been made
promote_pending(ds) ==
    LET s1 == [ds EXCEPT !.cur_aa = ds.aux_pending_aa]
        s2 == [s1 EXCEPT !.aux_pending_aa = None]
    IN  IF s2.aux_pending_crci = None
            THEN [raised |-> TRUE, dstate |-> s2]
            ELSE [raised |-> FALSE,
                  dstate |-> [s2 EXCEPT
                                !.crc_init_rev = Some(rbit24(s2.aux_pending_crci[1])),
                                !.aux_pending_crci = None]]

\* line 506 with the window of line 513
scan_req_deadline_long(o) == o.ts + 1000

\* line 506: pkt.ts + 0.0005
scan_req_deadline(o) == o.ts + 500

\* lines 508-509 with the pointer's offset left out
chain_slot_no_offset(o) ==
    <<o.AdvDataInfo, o.AuxPtr[1].chan, o.ts + 500>>

\* lines 508-509: (AdvDataInfo, AuxPtr.chan, ts + offsetUsec*1E-6 + 0.0005)
chain_slot(o) ==
    <<o.AdvDataInfo, o.AuxPtr[1].chan, o.ts + o.AuxPtr[1].offsetUsec + 500>>

\* line 507 with the class test widened to every extended advertising PDU
arms_chain_any_ext(o) ==
    IsInstance(o.cls, "AdvExtIndMessage") /\ o.AuxPtr # None

\* line 507: isinstance(pkt, AuxAdvIndMessage) and pkt.AuxPtr; an AuxPtr
\* object is always true, None is false
arms_chain(o) ==
    IsInstance(o.cls, "AuxAdvIndMessage") /\ o.AuxPtr # None

\* line 513 with the window of line 506
scannable_deadline_short(o) == o.ts + 500

\* line 513: pkt.ts + 0.001
scannable_deadline(o) == o.ts + 1000

\* lines 493-513: the if/elif chain
update_rules(o, ds) ==
    IF IsInstance(o.cls, "ConnectIndMessage") THEN
        IF connect_is_pending(o, ds)
            THEN [raised |-> FALSE,
                  dstate |-> [ds EXCEPT !.aux_pending_aa = o.aa_conn,
                                        !.aux_pending_crci = o.CRCInit]]
            ELSE [raised |-> FALSE,
                  dstate |-> [ds EXCEPT !.cur_aa = o.aa_conn,
                                        !.crc_init_rev = Some(rbit24(o.CRCInit[1]))]]
    ELSE IF IsInstance(o.cls, "AuxConnectRspMessage") THEN
        promote_pending(ds)
    ELSE IF IsInstance(o.cls, "AuxScanReqMessage") THEN
        [raised |-> FALSE,
         dstate |-> [ds EXCEPT !.aux_pending_scan_rsp = Some(scan_req_deadline(o))]]
    ELSE IF arms_chain(o) THEN
        [raised |-> FALSE,
         dstate |-> [ds EXCEPT !.aux_pending_chain = Some(chain_slot(o))]]
    ELSE IF ds.last_state = "SCANNING" /\ IsInstance(o.cls, "AuxAdvIndMessage") THEN
        IF o.AdvMode = None
            THEN [raised |-> TRUE, dstate |-> ds]         \* the object has no AdvMode
        ELSE IF o.AdvMode[1] = 2
            THEN [raised |-> FALSE,
                  dstate |-> [ds EXCEPT !.aux_pending_scan_rsp = Some(scannable_deadline(o))]]
        ELSE [raised |-> FALSE, dstate |-> ds]
    ELSE [raised |-> FALSE, dstate |-> ds]

\* lines 516-519 without the comparison of line 517
sweep_scan_rsp_only_on_rsp(o, ds) ==
    IF Truthy(ds.aux_pending_scan_rsp) /\ IsInstance(o.cls, "AuxScanRspMessage")
        THEN [ds EXCEPT !.aux_pending_scan_rsp = None]
        ELSE ds

\* lines 516-519
sweep_scan_rsp(o, ds) ==
    IF Truthy(ds.aux_pending_scan_rsp)
       /\ (o.ts > ds.aux_pending_scan_rsp[1] \/ IsInstance(o.cls, "AuxScanRspMessage"))
        THEN [ds EXCEPT !.aux_pending_scan_rsp = None]
        ELSE ds

\* lines 520-526
sweep_chain(o, ds) ==
    IF ds.aux_pending_chain = None THEN ds
    ELSE IF o.ts > ds.aux_pending_chain[1][3]
        THEN [ds EXCEPT !.aux_pending_chain = None]
    ELSE IF IsInstance(o.cls, "AuxChainIndMessage")
            /\ o.chan = ds.aux_pending_chain[1][2]
            /\ PyEq(o.AdvDataInfo, ds.aux_pending_chain[1][1])
        THEN [ds EXCEPT !.aux_pending_chain = None]
    ELSE ds

update_state(o, ds) ==
    LET r == update_rules(o, ds) IN
    IF r.raised THEN r
    ELSE [raised |-> FALSE, dstate |-> sweep_chain(o, sweep_scan_rsp(o, r.dstate))]

----------------------------------------------------------------------------
(* DPacketMessage.decode(pkt, dstate) *)

\* the record itself, as the except clause returns it
RawPacket(p) ==
    [DPacketMessage_init("PacketMessage", p) EXCEPT !.cls = "PacketMessage"]

\* the except clause, had it caught only ValueError: the exception escapes
Caught_narrow(p, ds, t) ==
    [ret |-> RawPacket(p), dstate |-> ds, tc |-> t, escaped |-> TRUE]

\* lines 95-99, the except clause: every Exception is caught, reported, and
\* the record returned; ds is the state as the try block left it
Caught(p, ds, t) ==
    [ret |-> RawPacket(p), dstate |-> ds, tc |-> t, escaped |-> FALSE]

\* Yields the returned value, the state afterwards (ds if the call was given
\* no state), the class selected and whether an exception escaped the call.
DPacketMessage_decode(p, d, ds) ==
    LET dpkt == IF p.aa = BLE_ADV_AA THEN AdvertMessage_decode(p, d)
                                     ELSE DataMessage_decode(p, d)
    IN  IF dpkt.raised THEN Caught(p, ds, dpkt.tc)
        ELSE IF d # None
            THEN LET u == update_state(dpkt.obj, d[1]) IN
                 IF u.raised
                    THEN Caught(p, u.dstate, dpkt.tc)
                    ELSE [ret |-> dpkt.obj, dstate |-> u.dstate, tc |-> dpkt.tc,
                          escaped |-> FALSE]
        ELSE [ret |-> dpkt.obj, dstate |-> ds, tc |-> dpkt.tc, escaped |-> FALSE]

\* When the call has returned, the AdvDataInfo it may have left in the chain
\* slot is no longer the object of a call in progress.
Settled(ds) ==
    IF ds.aux_pending_chain = None \/ ds.aux_pending_chain[1][1] = None THEN ds
    ELSE [ds EXCEPT !.aux_pending_chain[1][1][1].fresh = FALSE]

----------------------------------------------------------------------------
(* The records the capture side hands to decode *)

\* number of distinct connections (access address, CRCInit) on the air
MaxConn == 2
\* number of timestamps later than every window opened at time 0
MaxLate == 1

Zeros(n) == [i \in 1..n |-> 0]

\* an advertising-channel body: header byte (PDU type in the low nibble),
\* length byte, payload
AdvBody(pdu_type, payload) == <<pdu_type, Len(payload)>> \o payload

\* the access address and CRCInit of connection k, as they lie in a CONNECT_IND
ConnAABytes(k) == <<k, 86, 52, 127 + k>>
ConnCRCBytes(k) == <<k, 2 * k, 18>>
ConnAA(k) == UnpackLE32(ConnAABytes(k))
ConnCRCInit(k) == k + 512 * k + 65536 * 18

\* CONNECT_IND / AUX_CONNECT_REQ payload: InitA, AdvA, AA, CRCInit, WinSize,
\* WinOffset, Interval, Latency, Timeout, ChM, Hop/SCA
ConnectBody(k) ==
    AdvBody(5, Zeros(6) \o Zeros(6) \o ConnAABytes(k) \o ConnCRCBytes(k)
               \o <<2>> \o <<0, 0, 24, 0, 0, 0, 72, 0>>
               \o <<255, 255, 255, 255, 31>> \o <<9>>)

\* the same PDU cut off inside CRCInit
ConnectBodyShort == SubSeq(ConnectBody(1), 1, 20)

\* an extended advertising body: AdvMode, the presence flags, the header
\* fields as they lie on the air
ExtBody(pdu_type, AdvMode, hdrFlags, fields) ==
    AdvBody(pdu_type, <<AdvMode * 64 + 1 + Len(fields), hdrFlags>> \o fields)

\* an ADI: DID 0x123, SID 4
ADIBytes == <<35, 65>>
\* an AuxPtr to channel 5, 10 units of 30 us; and one to channel 5, 1 unit of 300 us
AuxPtrBytes30 == <<5, 10, 0>>
AuxPtrBytes300 == <<133, 1, 0>>

ExtPlain == ExtBody(7, 0, 0, <<>>)
ExtScannable == ExtBody(7, 2, 0, <<>>)
ExtADI == ExtBody(7, 0, 8, ADIBytes)
ExtADIAuxPtr == ExtBody(7, 0, 24, ADIBytes \o AuxPtrBytes30)
ExtAuxPtr == ExtBody(7, 0, 16, AuxPtrBytes300)
ExtScannableAuxPtr == ExtBody(7, 2, 16, AuxPtrBytes30)
\* the shortest body there is: a header and a length byte
ExtTooShort == <<7, 0>>
AuxConnectRspBody == ExtBody(8, 0, 3, Zeros(6) \o Zeros(6))
AdvIndBody == AdvBody(0, Zeros(6))
ScanReqBody == AdvBody(3, Zeros(12))

\* data-channel bodies: LL CONTROL with an opcode, LL CONTROL cut before it, LL DATA
LlControlBody == <<3, 1, 12>>
LlControlShort == <<3, 0>>
LlDataBody == <<2, 0>>

Record(ts, aa, chan, phy, body) ==
    [ts |-> ts, aa |-> aa, chan |-> chan, phy |-> phy, body |-> body]

\* connection establishment, seen on a secondary and on a primary channel
ConnRecords ==
    {Record(0, BLE_ADV_AA, chan, 0, body) :
        chan \in {5, 37},
        body \in {ConnectBody(k) : k \in 1..MaxConn}
                 \cup {ConnectBodyShort, AuxConnectRspBody, AdvIndBody, ExtPlain,
                       ExtTooShort}}
    \cup {Record(0, ConnAA(1), 5, 1, body) : body \in {LlControlBody, LlControlShort}}

\* timestamps around the windows a packet at time 0 opens: 500 us after an
\* AUX_SCAN_REQ, 300 + 500 us after an AuxPtr, 1000 us after a scannable PDU
TsSet == {0, 300, 500, 800} \cup {800 + 300 * k : k \in 1..MaxLate}

\* extended advertising on secondary channel 5, where every AuxPtr above
\* points, and what may be taken for its continuation on channel 6
AuxRecords ==
    {Record(ts, BLE_ADV_AA, 5, 0, body) :
        ts \in TsSet,
        body \in {ScanReqBody, ExtPlain, ExtScannable, ExtADI, ExtADIAuxPtr,
                  ExtAuxPtr, ExtScannableAuxPtr, ExtTooShort}}
    \cup {Record(ts, BLE_ADV_AA, 6, 0, body) : ts \in TsSet, body \in {ExtPlain, ExtADI}}

\* records decoded one-off, without the session's state
AuxOneOffRecords ==
    {Record(0, BLE_ADV_AA, 5, 0, body) : body \in {ScanReqBody, ExtPlain, ExtADIAuxPtr}}
    \cup {Record(0, ConnAA(1), 5, 1, LlDataBody)}

\* a body long enough for the fixed-offset fields of every PDU kind: the
\* header byte, the length byte and 34 bytes of payload
DispatchBody(hdr) == <<hdr, 34>> \o Zeros(34)

\* header bytes: every PDU type nibble, with the bits above it clear and
\* with ChSel set (bit 5 together with TxAdd, bit 6)
HdrBytes == (0..15) \cup {n + 96 : n \in 0..15}

\* data-channel header bytes: every LLID, with NESN/SN/MD clear and set
DataHdrBytes == (0..3) \cup {n + 28 : n \in 0..3}

\* every selector of the dispatchers, on a secondary and on a primary
\* channel; an extended advertising PDU with an AuxPtr on both; and, after
\* every window opened at time 0 has closed, an ADV_IND and an LL DATA PDU
DispatchRecords ==
    {Record(0, BLE_ADV_AA, chan, 0, DispatchBody(hdr)) : chan \in {5, 37}, hdr \in HdrBytes}
    \cup {Record(0, ConnAA(1), 5, 1, <<hdr, 1, 12>>) : hdr \in DataHdrBytes}
    \cup {Record(0, BLE_ADV_AA, chan, 0, ExtADIAuxPtr) : chan \in {5, 37}}
    \cup {Record(2000, BLE_ADV_AA, 37, 0, AdvIndBody), Record(2000, ConnAA(1), 5, 1, LlDataBody)}

\* number of bytes by which a body may fall short of what its header asks for
MaxCut == 3

\* the bytes that follow the flags byte, as many as any header asks for
Fill == [i \in 1..40 |-> 100 + i]

\* the bytes the optional fields a flags byte announces take up
FieldBytes(hdrFlags) ==
    6 * Bit(hdrFlags, 0) + 6 * Bit(hdrFlags, 1) + Bit(hdrFlags, 2)
    + 2 * Bit(hdrFlags, 3) + 3 * Bit(hdrFlags, 4) + 18 * Bit(hdrFlags, 5)
    + Bit(hdrFlags, 6)

\* an extended advertising body whose header announces the fields of
\* hdrFlags and acad bytes of ACAD, declares hdrBodyLen as its length, and
\* has lost its last cut bytes
HdrBody(hdrBodyLen, hdrFlags, acad, cut) ==
    LET whole == <<7, 2 + FieldBytes(hdrFlags) + acad, hdrBodyLen, hdrFlags>>
                 \o SubSeq(Fill, 1, FieldBytes(hdrFlags) + acad)
    IN  SubSeq(whole, 1, IF Len(whole) - cut < 2 THEN 2 ELSE Len(whole) - cut)

\* flags bytes: none, each field alone, and fields together
HdrFlagSets == {0, 1, 2, 4, 8, 16, 32, 64, 3, 9, 127}

\* AuxPtr fields: channel and unit bit, low offset byte, PHY and high
\* offset bits
PtrBytes == {<<a, b, c>> : a \in {5, 133, 255}, b \in {0, 10, 255}, c \in {0, 31, 224}}

\* extended advertising headers on a primary channel, whole and cut short;
\* a few of them on a secondary channel; and every AuxPtr of PtrBytes
HdrRecords ==
    {Record(0, BLE_ADV_AA, 37, 0, HdrBody(l, f[1], f[2], cut)) :
        l \in {1, 63}, f \in HdrFlagSets \X {0, 2}, cut \in 0..MaxCut}
    \cup {Record(0, BLE_ADV_AA, chan, 0, HdrBody(1 + FieldBytes(f) + acad, f, acad, cut)) :
        chan \in {37}, f \in HdrFlagSets, acad \in {0, 2}, cut \in 0..MaxCut}
    \cup {Record(0, BLE_ADV_AA, 5, 0, HdrBody(1 + FieldBytes(f), f, 0, cut)) :
        f \in {1, 32}, cut \in 0..MaxCut}
    \cup {Record(0, BLE_ADV_AA, 37, 0, ExtBody(7, 0, 16, ptr)) : ptr \in PtrBytes}

----------------------------------------------------------------------------
(* The state machine *)

Init ==
    /\ \E m \in LastStates : dstate = NewDecoderState(m)
    /\ pre = dstate
    /\ pkt = None
    /\ has_dstate = FALSE
    /\ tc = None
    /\ ret = None
    /\ outcome = "none"

\* one call of DPacketMessage.decode(p, dstate), or of decode(p) if ~withState
Decode(p, withState) ==
    \E r \in {DPacketMessage_decode(p, IF withState THEN Some(dstate) ELSE None, dstate)} :
    /\ pkt' = Some(p)
    /\ has_dstate' = withState
    /\ pre' = dstate
    /\ tc' = r.tc
    /\ ret' = Some(r.ret)
    /\ outcome' = IF r.escaped THEN "raised" ELSE "returned"
    /\ dstate' = Settled(r.dstate)

DecodeWithState == \E p \in ConnRecords : Decode(p, TRUE)
DecodeOneOff == \E p \in ConnRecords : Decode(p, FALSE)

Next == DecodeWithState \/ DecodeOneOff

\* connection tracking and failure containment
Spec == Init /\ [][Next]_vars

AuxDecodeWithState == \E p \in AuxRecords : Decode(p, TRUE)
AuxDecodeOneOff == \E p \in AuxOneOffRecords : Decode(p, FALSE)

NextAux == AuxDecodeWithState \/ AuxDecodeOneOff

\* extended advertising correlation
SpecAux == Init /\ [][NextAux]_vars

DispatchWithState == \E p \in DispatchRecords : Decode(p, TRUE)
DispatchOneOff == \E p \in DispatchRecords : Decode(p, FALSE)

NextDispatch == DispatchWithState \/ DispatchOneOff

\* the dispatch tables and the PDUs update_state has no rule for
SpecDispatch == Init /\ [][NextDispatch]_vars

HdrDecodeWithState == \E p \in HdrRecords : Decode(p, TRUE)
HdrDecodeOneOff == \E p \in {q \in HdrRecords : q.chan = 37} : Decode(p, FALSE)

NextHdr == HdrDecodeWithState \/ HdrDecodeOneOff

\* the walk over the extended advertising header
SpecHdr == Init /\ [][NextHdr]_vars

----------------------------------------------------------------------------
(* Vocabulary of the properties.  pkt, has_dstate, pre, tc and ret describe *)
(* the last call of decode; dstate is the state it left.                   *)

Called == pkt # None
\* the record that call was given, and the value it returned
P == pkt[1]
R == ret[1]

\* the call took the except clause: the raw record came back
FailurePath == Called /\ R.cls = "PacketMessage"

\* the call was given the state and returned a PDU of one of these classes
DecodedWithState(classes) == Called /\ has_dstate /\ R.cls \in classes

\* y is x with its 24 bits in reverse order
IsBitReversal24(x, y) == \A i \in 0..23 : Bit(y, i) = Bit(x, 23 - i)

\* the record is an advertising packet on a secondary channel with PDU type 7
IsAuxType7(p) == p.aa = BLE_ADV_AA /\ p.chan < 37 /\ At(p.body, 0) % 16 = 7

----------------------------------------------------------------------------
(* Connection tracking and failure containment (specification Spec) *)

\* C1: whenever decode takes its failure path, every field of the decoder
\* state has the value it had before the call.
C1_FailureLeavesStateUnmodified ==
    FailurePath => dstate = pre

\* C2: decoding an AUX_CONNECT_RSP with a state whose pending connection
\* slot is empty changes neither cur_aa nor crc_init_rev.
C2_RspWithoutPendingIsNoOp ==
    (Called /\ has_dstate /\ tc = Some("AuxConnectRspMessage")
        /\ pre.aux_pending_aa = None /\ pre.aux_pending_crci = None)
    => (dstate.cur_aa = pre.cur_aa /\ dstate.crc_init_rev = pre.crc_init_rev)

\* the call stored the PDU's aa_conn and CRCInit in the pending slot and
\* left the active connection as it was
OnlyPendingFilled ==
    /\ dstate.aux_pending_aa = R.aa_conn
    /\ dstate.aux_pending_crci = R.CRCInit
    /\ dstate.cur_aa = pre.cur_aa
    /\ dstate.crc_init_rev = pre.crc_init_rev

\* C3 as stated: a CONNECT_IND-family PDU on a secondary channel, or in
\* capture mode ADVERTISING_EXT, only fills the pending slot.
C3_PendingOnSecondaryOrExtMode ==
    (DecodedWithState({"ConnectIndMessage", "AuxConnectReqMessage"})
        /\ (P.chan < 37 \/ pre.last_state = "ADVERTISING_EXT"))
    => OnlyPendingFilled

\* C3 as amended: a CONNECT_IND-family PDU on a secondary channel, in a
\* capture mode other than ADVERTISING_EXT, only fills the pending slot.
C3_PendingOnSecondaryNotExtMode ==
    (DecodedWithState({"ConnectIndMessage", "AuxConnectReqMessage"})
        /\ P.chan < 37 /\ pre.last_state # "ADVERTISING_EXT")
    => OnlyPendingFilled

\* an AUX_CONNECT_REQ filled the slot while another connection was active
C3_Witness ==
    /\ DecodedWithState({"AuxConnectReqMessage"})
    /\ P.chan < 37 /\ pre.last_state # "ADVERTISING_EXT"
    /\ pre.cur_aa # None /\ pre.cur_aa # R.aa_conn
    /\ dstate.aux_pending_aa = R.aa_conn

\* C4: a CONNECT_IND on a primary channel, in a capture mode other than
\* ADVERTISING_EXT, activates the connection in that call: cur_aa is the
\* PDU's aa_conn and crc_init_rev the bit-reversal of its CRCInit.
C4_LegacyConnectActivates ==
    (DecodedWithState({"ConnectIndMessage"})
        /\ P.chan >= 37 /\ pre.last_state # "ADVERTISING_EXT")
    => /\ dstate.cur_aa = R.aa_conn
       /\ dstate.crc_init_rev # None
       /\ IsBitReversal24(R.CRCInit[1], dstate.crc_init_rev[1])

\* a legacy CONNECT_IND replaced the connection that was active
C4_Witness ==
    /\ DecodedWithState({"ConnectIndMessage"})
    /\ P.chan >= 37 /\ pre.last_state # "ADVERTISING_EXT"
    /\ pre.cur_aa # None /\ pre.cur_aa # R.aa_conn
    /\ dstate.cur_aa = R.aa_conn

\* C5: an AUX_CONNECT_RSP decoded with a state whose pending slot holds
\* (aa, crci) promotes it: cur_aa = aa, crc_init_rev = the bit-reversal of
\* crci, and the pending slot is empty.
C5_RspPromotesPending ==
    (Called /\ has_dstate /\ tc = Some("AuxConnectRspMessage")
        /\ pre.aux_pending_aa # None /\ pre.aux_pending_crci # None)
    => /\ dstate.cur_aa = pre.aux_pending_aa
       /\ dstate.crc_init_rev # None
       /\ IsBitReversal24(pre.aux_pending_crci[1], dstate.crc_init_rev[1])
       /\ dstate.aux_pending_aa = None
       /\ dstate.aux_pending_crci = None

\* an AUX_CONNECT_RSP promoted a pending connection over a different active one
C5_Witness ==
    /\ DecodedWithState({"AuxConnectRspMessage"})
    /\ pre.aux_pending_aa # None /\ pre.aux_pending_crci # None
    /\ pre.cur_aa # None /\ pre.cur_aa # pre.aux_pending_aa
    /\ dstate.cur_aa = pre.aux_pending_aa

\* C6: decode returns normally for every record and state, and on its
\* failure path the returned value carries the record's timestamp, access
\* address, channel, PHY and body.
C6_FailureContained ==
    Called =>
        /\ outcome = "returned"
        /\ FailurePath =>
              /\ R.ts = P.ts /\ R.aa = P.aa /\ R.chan = P.chan
              /\ R.phy = P.phy /\ R.body = P.body

\* an exception raised inside update_state was caught and the record returned
C6_Witness ==
    /\ FailurePath /\ has_dstate /\ outcome = "returned"
    /\ tc = Some("AuxConnectRspMessage")
    /\ R.body = P.body

----------------------------------------------------------------------------
(* Extended advertising correlation (specification SpecAux) *)

ScanRspExpected(p, ds) ==
    ds.aux_pending_scan_rsp # None /\ p.ts < ds.aux_pending_scan_rsp[1]

ChainExpected(p, ds) ==
    /\ ds.aux_pending_chain # None
    /\ p.chan = ds.aux_pending_chain[1][2]
    /\ p.ts < ds.aux_pending_chain[1][3]

\* C7: a secondary-channel PDU of type 7 decoded with a state is an
\* AUX_SCAN_RSP if a scan-response deadline is pending and ts is strictly
\* before it; otherwise an AUX_CHAIN_IND if a chain is pending on the
\* packet's channel and ts is strictly before its deadline; otherwise an
\* AUX_ADV_IND.  A ts equal to a deadline is not matched by it.
C7_Type7Precedence ==
    (Called /\ has_dstate /\ IsAuxType7(P)) =>
        /\ ScanRspExpected(P, pre) => tc = Some("AuxScanRspMessage")
        /\ (~ScanRspExpected(P, pre) /\ ChainExpected(P, pre))
              => tc = Some("AuxChainIndMessage")
        /\ (~ScanRspExpected(P, pre) /\ ~ChainExpected(P, pre))
              => tc = Some("AuxAdvIndMessage")

\* a scan response was chosen although a matching chain was pending as well
C7_Witness ==
    /\ Called /\ has_dstate /\ IsAuxType7(P)
    /\ ScanRspExpected(P, pre) /\ ChainExpected(P, pre)
    /\ tc = Some("AuxScanRspMessage")

\* C8: after an AUX_SCAN_REQ with timestamp t is decoded with a state, the
\* next packet decoded with that state, if it is a secondary-channel PDU of
\* type 7, is an AUX_SCAN_RSP when t <= ts < t + 500 us, and an AUX_ADV_IND
\* when ts > t + 500 us and no chain is pending.
C8_ScanCorrelation ==
    [][ (Called /\ has_dstate /\ tc = Some("AuxScanReqMessage")
            /\ has_dstate' /\ IsAuxType7(pkt'[1]))
        => /\ (P.ts <= pkt'[1].ts /\ pkt'[1].ts < P.ts + 500)
                => tc' = Some("AuxScanRspMessage")
           /\ (pkt'[1].ts > P.ts + 500 /\ dstate.aux_pending_chain = None)
                => tc' = Some("AuxAdvIndMessage") ]_vars

\* outside SCANNING mode only an AUX_SCAN_REQ arms the deadline: one armed
\* it less than 500 us before this packet, which became the AUX_SCAN_RSP
C8_Witness ==
    /\ Called /\ has_dstate /\ IsAuxType7(P)
    /\ pre.last_state # "SCANNING"
    /\ pre.aux_pending_scan_rsp # None
    /\ pre.aux_pending_scan_rsp[1] - 500 < P.ts
    /\ P.ts < pre.aux_pending_scan_rsp[1]
    /\ tc = Some("AuxScanRspMessage")

\* the last call decoded, with the state, an AUX_ADV_IND carrying an AuxPtr
\* and left no scan-response deadline pending
AuxAdvIndArmedChain ==
    /\ DecodedWithState({"AuxAdvIndMessage"})
    /\ R.AuxPtr # None
    /\ dstate.aux_pending_scan_rsp = None

\* C9 as stated: after an AUX_ADV_IND at t with an AuxPtr to channel c and
\* offsetUsec o, the next type 7 packet on channel c with a timestamp up to
\* and including t + o + 500 us is an AUX_CHAIN_IND.
C9_ChainUpToDeadline ==
    [][ (AuxAdvIndArmedChain /\ has_dstate' /\ IsAuxType7(pkt'[1])
            /\ pkt'[1].chan = R.AuxPtr[1].chan
            /\ P.ts <= pkt'[1].ts
            /\ pkt'[1].ts <= P.ts + R.AuxPtr[1].offsetUsec + 500)
        => tc' = Some("AuxChainIndMessage") ]_vars

\* C9 as amended: ... with a timestamp strictly before t + o + 500 us is an
\* AUX_CHAIN_IND.
C9_ChainBeforeDeadline ==
    [][ (AuxAdvIndArmedChain /\ has_dstate' /\ IsAuxType7(pkt'[1])
            /\ pkt'[1].chan = R.AuxPtr[1].chan
            /\ P.ts <= pkt'[1].ts
            /\ pkt'[1].ts < P.ts + R.AuxPtr[1].offsetUsec + 500)
        => tc' = Some("AuxChainIndMessage") ]_vars

\* a packet in the last 500 us before the chain deadline, no scan response
\* pending, became the AUX_CHAIN_IND
C9_Witness ==
    /\ Called /\ has_dstate /\ IsAuxType7(P)
    /\ pre.aux_pending_scan_rsp = None
    /\ pre.aux_pending_chain # None
    /\ P.chan = pre.aux_pending_chain[1][2]
    /\ pre.aux_pending_chain[1][3] - 500 <= P.ts
    /\ P.ts < pre.aux_pending_chain[1][3]
    /\ tc = Some("AuxChainIndMessage")

\* C10: an AUX_CHAIN_IND without an AuxPtr, on the pending chain's channel,
\* before its deadline, carrying an AdvDataInfo with the DID and SID of the
\* one in the slot, leaves the pending chain slot absent.
C10_ChainSlotConsumed ==
    (DecodedWithState({"AuxChainIndMessage"})
        /\ R.AuxPtr = None
        /\ pre.aux_pending_chain # None
        /\ P.chan = pre.aux_pending_chain[1][2]
        /\ P.ts < pre.aux_pending_chain[1][3]
        /\ R.AdvDataInfo # None
        /\ pre.aux_pending_chain[1][1] # None
        /\ R.AdvDataInfo[1].did = pre.aux_pending_chain[1][1][1].did
        /\ R.AdvDataInfo[1].sid = pre.aux_pending_chain[1][1][1].sid)
    => dstate.aux_pending_chain = None

\* C11 as stated: a scannable PDU (AdvMode 2) dispatched as AUX_ADV_IND or
\* AUX_CHAIN_IND at ts, decoded with a state in SCANNING mode, leaves the
\* scan-response deadline at ts + 1000 us, with or without an AuxPtr.
C11_ScannableArmsAlways ==
    (DecodedWithState({"AuxAdvIndMessage", "AuxChainIndMessage"})
        /\ pre.last_state = "SCANNING" /\ R.AdvMode = Some(2))
    => dstate.aux_pending_scan_rsp = Some(P.ts + 1000)

\* C11 as amended: ... and carrying no AuxPtr, leaves the scan-response
\* deadline at ts + 1000 us.
C11_ScannableWithoutAuxPtrArms ==
    (DecodedWithState({"AuxAdvIndMessage", "AuxChainIndMessage"})
        /\ pre.last_state = "SCANNING" /\ R.AdvMode = Some(2) /\ R.AuxPtr = None)
    => dstate.aux_pending_scan_rsp = Some(P.ts + 1000)

\* a scannable AUX_CHAIN_IND without AuxPtr armed the deadline, none pending before
C11_Witness ==
    /\ DecodedWithState({"AuxChainIndMessage"})
    /\ pre.last_state = "SCANNING" /\ R.AdvMode = Some(2) /\ R.AuxPtr = None
    /\ pre.aux_pending_scan_rsp = None
    /\ dstate.aux_pending_scan_rsp = Some(P.ts + 1000)

\* the body is as long as its length byte says
LengthConsistent(p) == Len(p.body) >= 2 /\ At(p.body, 1) = Len(p.body) - 2

\* a record whose body holds every byte the PDU kinds decoded one-off read:
\* an extended header with its flags byte, an LL CONTROL with its opcode
WellFormed(p) ==
    /\ LengthConsistent(p)
    /\ (p.aa = BLE_ADV_AA /\ At(p.body, 0) % 16 = 7) => Len(p.body) >= 4
    /\ (p.aa # BLE_ADV_AA /\ At(p.body, 0) % 4 = 3) => Len(p.body) >= 3

\* C12: decode without a state is a pure dispatch that yields a decoded PDU
\* for every well-formed record; a secondary-channel PDU of type 7 comes
\* back as an AUX_ADV_IND, not as the raw record of the failure path.
C12_OneOffIsPureDispatch ==
    (Called /\ ~has_dstate /\ WellFormed(P))
    => /\ ~FailurePath
       /\ IsAuxType7(P) => R.cls = "AuxAdvIndMessage"

\* the deadline this call armed, if the PDU is one that arms it
ArmedByCall ==
    IF R.cls = "AuxScanReqMessage" THEN {Some(P.ts + 500)}
    ELSE IF pre.last_state = "SCANNING" /\ R.cls \in {"AuxAdvIndMessage", "AuxChainIndMessage"}
            /\ R.AuxPtr = None /\ R.AdvMode = Some(2)
        THEN {Some(P.ts + 1000)}
    ELSE {}

\* C17 as stated: after a call with state that returns a decoded PDU, the
\* scan-response deadline is absent if the PDU's timestamp is later than
\* the deadline pending before the call, or if the PDU is an AUX_SCAN_RSP;
\* a deadline that survives is not earlier than the PDU's timestamp.
C17_PassedDeadlineAbsent ==
    (Called /\ has_dstate /\ ~FailurePath)
    => /\ (pre.aux_pending_scan_rsp # None /\ P.ts > pre.aux_pending_scan_rsp[1])
            => dstate.aux_pending_scan_rsp = None
       /\ R.cls = "AuxScanRspMessage" => dstate.aux_pending_scan_rsp = None
       /\ dstate.aux_pending_scan_rsp # None => dstate.aux_pending_scan_rsp[1] >= P.ts

\* C17 as amended: ... if the PDU's timestamp is later than the deadline
\* pending before the call, that deadline is gone: the slot is absent or
\* holds the deadline this PDU armed; it is absent if the PDU is an
\* AUX_SCAN_RSP; a deadline that survives is not earlier than the PDU's
\* timestamp.
C17_PassedDeadlineGone ==
    (Called /\ has_dstate /\ ~FailurePath)
    => /\ (pre.aux_pending_scan_rsp # None /\ P.ts > pre.aux_pending_scan_rsp[1])
            => dstate.aux_pending_scan_rsp \in {None} \cup ArmedByCall
       /\ R.cls = "AuxScanRspMessage" => dstate.aux_pending_scan_rsp = None
       /\ dstate.aux_pending_scan_rsp # None => dstate.aux_pending_scan_rsp[1] >= P.ts

\* a PDU that arms nothing, later than the pending deadline, cleared it
C17_Witness ==
    /\ Called /\ has_dstate /\ ~FailurePath
    /\ pre.aux_pending_scan_rsp # None /\ P.ts > pre.aux_pending_scan_rsp[1]
    /\ ArmedByCall = {}
    /\ dstate.aux_pending_scan_rsp = None

\* a and b are both absent, or AdvDataInfo with the same DID and SID
SameADI(a, b) ==
    IF a = None \/ b = None THEN a = b
    ELSE a[1].did = b[1].did /\ a[1].sid = b[1].sid

\* C18: decoding with state an AUX_ADV_IND, AUX_SCAN_RSP or AUX_CHAIN_IND
\* at ts that carries an AuxPtr leaves the chain slot holding the PDU's
\* AdvDataInfo, the pointer's channel and ts + offsetUsec + 500 us.
C18_AuxPtrArmsChain ==
    (DecodedWithState({"AuxAdvIndMessage", "AuxScanRspMessage", "AuxChainIndMessage"})
        /\ R.AuxPtr # None)
    => /\ dstate.aux_pending_chain # None
       /\ SameADI(dstate.aux_pending_chain[1][1], R.AdvDataInfo)
       /\ dstate.aux_pending_chain[1][2] = R.AuxPtr[1].chan
       /\ dstate.aux_pending_chain[1][3] = P.ts + R.AuxPtr[1].offsetUsec + 500

----------------------------------------------------------------------------
(* The dispatch tables and the frame of update_state (specification        *)
(* SpecDispatch)                                                           *)

\* the PDU kind the dispatch rules name for a record's selectors
KindByTable(p) ==
    LET nibble == At(p.body, 0) % 16
        llid == At(p.body, 0) % 4
    IN  IF p.aa = BLE_ADV_AA THEN
            IF p.chan \in 37..39 THEN
                CASE nibble = 0 -> "AdvIndMessage"
                  [] nibble = 1 -> "AdvDirectIndMessage"
                  [] nibble = 2 -> "AdvNonconnIndMessage"
                  [] nibble = 3 -> "ScanReqMessage"
                  [] nibble = 4 -> "ScanRspMessage"
                  [] nibble = 5 -> "ConnectIndMessage"
                  [] nibble = 6 -> "AdvScanIndMessage"
                  [] nibble = 7 -> "AdvExtIndMessage"
                  [] OTHER -> "AdvertMessage"
            ELSE
                CASE nibble = 3 -> "AuxScanReqMessage"
                  [] nibble = 5 -> "AuxConnectReqMessage"
                  [] nibble = 8 -> "AuxConnectRspMessage"
                  [] OTHER -> "AdvertMessage"
        ELSE
            CASE llid = 0 -> "DataMessage"
              [] llid = 1 -> "LlDataContMessage"
              [] llid = 2 -> "LlDataMessage"
              [] OTHER -> "LlControlMessage"

\* the body holds the fixed-offset fields of whatever kind is selected
LongEnough(p) == IF p.aa = BLE_ADV_AA THEN Len(p.body) >= 36 ELSE Len(p.body) >= 3

\* C13: for a record whose body is long enough, other than a type 7 PDU on
\* a secondary channel, the dispatcher selects the kind its table names
\* for the channel class and the type nibble, or for the LLID; decoded
\* without a state, a PDU of that kind is what comes back.
C13_DispatchTable ==
    (Called /\ LongEnough(P) /\ ~IsAuxType7(P))
    => /\ tc = Some(KindByTable(P))
       /\ ~has_dstate => R.cls = KindByTable(P)

\* nibble 8 under set upper bits, on a secondary channel, became AUX_CONNECT_RSP
C13_Witness ==
    /\ Called /\ ~has_dstate /\ LongEnough(P)
    /\ P.aa = BLE_ADV_AA /\ P.chan < 37
    /\ At(P.body, 0) > 15 /\ At(P.body, 0) % 16 = 8
    /\ R.cls = "AuxConnectRspMessage"

\* the classes update_state has a rule for
RuledClasses ==
    {"ConnectIndMessage", "AuxConnectReqMessage", "AuxConnectRspMessage",
     "AuxScanReqMessage", "AuxAdvIndMessage", "AuxScanRspMessage", "AuxChainIndMessage"}

\* the last call was given the state and a data-channel PDU, or an
\* advertising PDU for which the dispatcher selected a class without a rule
UnruledWithState ==
    /\ Called /\ has_dstate
    /\ \/ P.aa # BLE_ADV_AA
       \/ tc # None /\ tc[1] \notin RuledClasses

\* C20: decoding with state a data-channel PDU, or an advertising PDU that
\* is neither CONNECT_IND-family, AUX_CONNECT_RSP, AUX_SCAN_REQ nor
\* AUX_ADV_IND-family, leaves cur_aa, crc_init_rev, aux_pending_aa and
\* aux_pending_crci as they were, and each of aux_pending_scan_rsp and
\* aux_pending_chain as it was or absent.
C20_UnruledPduFrame ==
    UnruledWithState
    => /\ dstate.cur_aa = pre.cur_aa
       /\ dstate.crc_init_rev = pre.crc_init_rev
       /\ dstate.aux_pending_aa = pre.aux_pending_aa
       /\ dstate.aux_pending_crci = pre.aux_pending_crci
       /\ dstate.aux_pending_scan_rsp \in {pre.aux_pending_scan_rsp, None}
       /\ dstate.aux_pending_chain \in {pre.aux_pending_chain, None}
       /\ dstate.last_state = pre.last_state

\* an ADV_EXT_IND with an AuxPtr, on a primary channel, left a tracked
\* connection, a pending connection and a pending scan response in place
\* and armed no chain
C20_Witness ==
    /\ UnruledWithState
    /\ tc = Some("AdvExtIndMessage") /\ R.cls = "AdvExtIndMessage" /\ R.AuxPtr # None
    /\ pre.cur_aa # None /\ pre.aux_pending_aa # None
    /\ pre.aux_pending_scan_rsp # None /\ pre.aux_pending_chain = None
    /\ dstate = pre

----------------------------------------------------------------------------
(* The extended advertising header (specification SpecHdr) *)

\* the ADV_EXT_IND family
ExtFamily ==
    {"AdvExtIndMessage", "AuxAdvIndMessage", "AuxScanRspMessage", "AuxChainIndMessage",
     "AuxConnectRspMessage"}

\* the last call returned a PDU of the ADV_EXT_IND family
ReturnedExt == Called /\ R.cls \in ExtFamily

\* the header-body length the body declares: body[2] & 0x3F
DeclaredLen(body) == At(body, 2) % 64

\* the bytes the populated optional fields of a PDU stand for, each field
\* at its size in the layout, the ACAD at its length
PopulatedBytes(o) ==
    (IF o.AdvA # None THEN 6 ELSE 0) + (IF o.TargetA # None THEN 6 ELSE 0)
    + (IF o.CTEInfo # None THEN 1 ELSE 0) + (IF o.AdvDataInfo # None THEN 2 ELSE 0)
    + (IF o.AuxPtr # None THEN 3 ELSE 0) + (IF o.SyncInfo # None THEN 18 ELSE 0)
    + (IF o.TxPower # None THEN 1 ELSE 0)
    + (IF o.ACAD # None THEN Len(o.ACAD[1]) ELSE 0)

\* C14: in every PDU of the ADV_EXT_IND family, the flags byte and the
\* populated optional fields together take no more bytes than the declared
\* header-body length, and lie inside the body (behind its two header bytes
\* and the length byte); no field is populated beyond the declared length.
C14_HeaderWithinDeclaredLength ==
    (ReturnedExt /\ PopulatedBytes(R) > 0)
    => /\ Len(P.body) >= 3
       /\ 1 + PopulatedBytes(R) <= DeclaredLen(P.body)
       /\ 3 + 1 + PopulatedBytes(R) <= Len(P.body)

\* C16: in every PDU of the ADV_EXT_IND family a populated AdvA or TargetA
\* has 6 bytes and a populated SyncInfo 18; and when the flags byte has
\* only the AdvA bit, AdvA has 6 bytes and TargetA, CTEInfo, AdvDataInfo,
\* AuxPtr, SyncInfo and TxPower are absent.
C16_OnlyWholeFieldsPopulated ==
    ReturnedExt
    => /\ R.AdvA # None => Len(R.AdvA[1]) = 6
       /\ R.TargetA # None => Len(R.TargetA[1]) = 6
       /\ R.SyncInfo # None => Len(R.SyncInfo[1]) = 18
       /\ (Len(P.body) >= 4 /\ At(P.body, 3) = 1 /\ R.AdvA # None)
            => /\ Len(R.AdvA[1]) = 6
               /\ R.TargetA = None /\ R.CTEInfo = None /\ R.AdvDataInfo = None
               /\ R.AuxPtr = None /\ R.SyncInfo = None /\ R.TxPower = None

\* the three bytes of the AuxPtr field when it is the only optional field
OnlyAuxPtr(body) == Len(body) >= 7 /\ At(body, 3) = 16
PtrOf(body) == SubSeq(body, 5, 7)

\* C19: a decoded AuxPtr has offsetUsec = (ptr[1] + ((ptr[2] & 0x1F) << 8))
\* times 300 if bit 7 of ptr[0] is set and times 30 if it is clear, and
\* chan = ptr[0] & 0x3F; an offset of 10 gives 3000 and 300.
C19_AuxPtrDecoding ==
    (ReturnedExt /\ OnlyAuxPtr(P.body) /\ R.AuxPtr # None)
    => LET ptr == PtrOf(P.body)
           offset == ptr[2] + (ptr[3] % 32) * 256
           unit300 == ptr[1] >= 128
       IN  /\ R.AuxPtr[1].offsetUsec = IF unit300 THEN offset * 300 ELSE offset * 30
           /\ R.AuxPtr[1].chan = ptr[1] % 64
           /\ offset = 10 => R.AuxPtr[1].offsetUsec = IF unit300 THEN 3000 ELSE 300

\* offset 10 in units of 300 us, on a channel number read under the unit
\* bit and the bit below it, gave 3000 us
C19_Witness ==
    /\ ReturnedExt /\ OnlyAuxPtr(P.body) /\ R.AuxPtr # None
    /\ PtrOf(P.body)[1] = 255 /\ PtrOf(P.body)[2] = 10 /\ PtrOf(P.body)[3] = 224
    /\ R.AuxPtr[1].offsetUsec = 3000 /\ R.AuxPtr[1].chan = 63

\* the extended header of a body is malformed: no length byte of its own,
\* a declared length the body cannot hold, or fields announced by the flags
\* byte that end past the body
MalformedExtHeader(body) ==
    \/ Len(body) < 3
    \/ Len(body) < 3 + DeclaredLen(body)
    \/ Len(body) >= 4 /\ Len(body) < 4 + FieldBytes(At(body, 3))

\* C15: a record dispatched to a kind of the ADV_EXT_IND family (an
\* AUX_CONNECT_RSP only with a connection pending) whose extended header is
\* malformed comes back, decoded with a state in any capture mode, as a
\* PDU of that kind and not as the raw record.
C15_MalformedHeaderRecovered ==
    (Called /\ has_dstate /\ tc # None /\ tc[1] \in ExtFamily
        /\ (tc[1] = "AuxConnectRspMessage"
                => pre.aux_pending_aa # None /\ pre.aux_pending_crci # None)
        /\ MalformedExtHeader(P.body))
    => R.cls = tc[1]

====
